---- MODULE Spec2Model ----
(***************************************************************************)
(* Model of common/parser.go: the template compiler (NewParser,            *)
(* splitSegments), the escape-aware Boyer-Moore searcher (compileSearcher, *)
(* stringSearcher.Search) and the line parser (Parser.Parse, unescape).    *)
(*                                                                         *)
(* Strings are sequences of bytes (naturals below 256).  The source        *)
(* indexes from 0; At and Slice keep the source's 0-based indices.         *)
(***************************************************************************)
EXTENDS Integers, Sequences, FiniteSets, TLC

VARIABLES format, parser, call, searcher, srch

vars == <<format, parser, call, searcher, srch>>

(***************************************************************************)
(* Bounds of the model.                                                    *)
(***************************************************************************)
MaxPatLen == 3
MaxSearchLen == 4
MaxTokens == 4
MaxLineLen == 5

\* An escape sequence of the configured pattern is two bytes long: a line
\* searched holds at most this many.
MaxEscapes == MaxSearchLen \div 2

Byte == 0 .. 255

\* s[i] and s[a:b] of Go, 0-based.
At(s, i) == s[i + 1]
Slice(s, a, b) == SubSeq(s, a + 1, b)

Max(a, b) == IF a > b THEN a ELSE b

\* All sequences over S of length at most n.
SeqsUpTo(S, n) == UNION {[1 .. k -> S] : k \in 0 .. n}

(***************************************************************************)
(* compileSearcher                                                         *)
(***************************************************************************)

\* Bad character rule: every entry is length, then the loop over the
\* pattern stores last - i at the entry of pattern[i], so the last
\* occurrence of a byte wins.
RECURSIVE BadCharsLoop(_, _, _)
BadCharsLoop(pattern, i, badChars) ==
  IF i >= Len(pattern) THEN badChars
  ELSE BadCharsLoop(pattern, i + 1,
                    [badChars EXCEPT ![At(pattern, i)] = Len(pattern) - 1 - i])

BadChars(pattern) ==
  BadCharsLoop(pattern, 0, [c \in Byte |-> Len(pattern)])

\* for g >= 0 && pattern[g] == pattern[g+last-f] { g-- }
RECURSIVE ExtendSuffix(_, _, _)
ExtendSuffix(pattern, g, f) ==
  LET last == Len(pattern) - 1
  IN  IF g >= 0 /\ At(pattern, g) = At(pattern, g + last - f)
      THEN ExtendSuffix(pattern, g - 1, f)
      ELSE g

\* The loop for i := last - 1; i >= 0; i-- over (g, f, suffixes).
RECURSIVE SuffixesLoop(_, _, _, _, _)
SuffixesLoop(pattern, i, g, f, suffixes) ==
  LET last == Len(pattern) - 1
  IN  IF i < 0 THEN suffixes
      ELSE IF i > g /\ suffixes[i + last - f] < i - g
      THEN SuffixesLoop(pattern, i - 1, g, f,
                        [suffixes EXCEPT ![i] = suffixes[i + last - f]])
      ELSE LET g1 == IF i < g THEN i ELSE g
               g2 == ExtendSuffix(pattern, g1, i)
           IN  SuffixesLoop(pattern, i - 1, g2, i,
                            [suffixes EXCEPT ![i] = i - g2])

\* suffixes of a non-empty pattern.
Suffixes(pattern) ==
  LET length == Len(pattern)
      last == length - 1
  IN  SuffixesLoop(pattern, last - 1, last, last - 1,
                   [k \in 0 .. last |-> IF k = last THEN length ELSE 0])

\* The loop for i := last; i >= 0; i-- that fills the entries still equal to
\* length from the pattern's borders; j is carried across iterations.
RECURSIVE BorderLoop(_, _, _, _, _)
BorderLoop(suffixes, length, i, j, gs) ==
  LET last == length - 1
  IN  IF i < 0 THEN gs
      ELSE IF suffixes[i] = i + 1
      THEN BorderLoop(suffixes, length, i - 1, Max(j, last - i),
                      [k \in 0 .. last |->
                         IF j <= k /\ k < last - i /\ gs[k] = length
                         THEN last - i ELSE gs[k]])
      ELSE BorderLoop(suffixes, length, i - 1, j, gs)

\* The loop for i := 0; i < last; i++ { gs[last-suffixes[i]] = last - i }.
RECURSIVE ShiftLoop(_, _, _, _)
ShiftLoop(suffixes, length, i, gs) ==
  LET last == length - 1
  IN  IF i >= last THEN gs
      ELSE ShiftLoop(suffixes, length, i + 1,
                     [gs EXCEPT ![last - suffixes[i]] = last - i])

GoodSuffixes(pattern) ==
  LET length == Len(pattern)
      last == length - 1
      suffixes == Suffixes(pattern)
      filled == BorderLoop(suffixes, length, last, 0,
                           [k \in 0 .. last |-> length])
  IN  ShiftLoop(suffixes, length, 0, filled)

\* The nil *stringSearcher.
NoSearcher == [nil |-> TRUE, panic |-> FALSE, pattern |-> <<>>,
               badChars |-> <<>>, goodSuffixes |-> <<>>]

\* compileSearcher.  For the empty pattern last is -1 and the store
\* suffixes[last] = length indexes out of range: the call panics.
compileSearcher(pattern) ==
  IF Len(pattern) = 0
  THEN [nil |-> TRUE, panic |-> TRUE, pattern |-> pattern,
        badChars |-> <<>>, goodSuffixes |-> <<>>]
  ELSE [nil |-> FALSE, panic |-> FALSE, pattern |-> pattern,
        badChars |-> BadChars(pattern),
        goodSuffixes |-> GoodSuffixes(pattern)]

(***************************************************************************)
(* stringSearcher.Search                                                   *)
(***************************************************************************)

\* An escape range is the pair <<start, end>> of FindAllStringIndex:
\* esc[0] is r[1] and esc[1] is r[2].
EscStart(r) == r[1]
EscEnd(r) == r[2]

\* for escidx < len(escapes) && escapes[escidx][1] <= i { escidx++ }
RECURSIVE SkipPassed(_, _, _)
SkipPassed(escapes, escidx, i) ==
  IF escidx < Len(escapes) /\ EscEnd(At(escapes, escidx)) <= i
  THEN SkipPassed(escapes, escidx + 1, i)
  ELSE escidx

\* escidx < len(escapes) && escapes[escidx][0] <= (j+i), j = len(pattern)-1.

\* The variant that tests the window's first byte only: <= i.
InEscapeStartOnly(escapes, escidx, i, j) ==
  escidx < Len(escapes) /\ EscStart(At(escapes, escidx)) <= i

InEscape(escapes, escidx, i, j) ==
  escidx < Len(escapes) /\ EscStart(At(escapes, escidx)) <= j + i

\* for j >= 0 && search.pattern[j] == line[i+j] { j-- }
RECURSIVE MatchDown(_, _, _, _)
MatchDown(pattern, line, i, j) ==
  IF j >= 0 /\ At(pattern, j) = At(line, i + j)
  THEN MatchDown(pattern, line, i, j - 1)
  ELSE j

\* The shift after a mismatch at pattern index j: the larger of the bad
\* character shift and the good suffix shift.

\* The variant without the good suffix rule: i += bc.
ShiftBadCharOnly(search, line, i, j) ==
  search.badChars[At(line, i + j)] - Len(search.pattern) + 1 + j

\* The variant whose bad character shift is the table entry itself, not
\* corrected by the mismatch position.
ShiftUncorrected(search, line, i, j) ==
  LET bc == search.badChars[At(line, i + j)]
      gs == search.goodSuffixes[j]
  IN  IF bc > gs THEN bc ELSE gs

Shift(search, line, i, j) ==
  LET bc == search.badChars[At(line, i + j)] - Len(search.pattern) + 1 + j
      gs == search.goodSuffixes[j]
  IN  IF bc > gs THEN bc ELSE gs

\* return i, i + len(search.pattern), escidx, nil

\* The variant that returns the match start as its end.
MatchEndAtStart(search, i) == i

MatchEnd(search, i) == i + Len(search.pattern)

\* The loop condition i <= len(line)-len(search.pattern).
InLoop(search, line, i) == i <= Len(line) - Len(search.pattern)

\* One iteration of the loop of Search at candidate position i.
SearchStep(search, line, i, escidx, escapes) ==
  LET j0 == Len(search.pattern) - 1
      e1 == SkipPassed(escapes, escidx, i)
  IN  IF InEscape(escapes, e1, i, j0)
      THEN [kind |-> "skip", i |-> EscEnd(At(escapes, e1)), escidx |-> e1]
      ELSE LET j == MatchDown(search.pattern, line, i, j0)
           IN  IF j < 0
               THEN [kind |-> "match", i |-> i, escidx |-> e1]
               ELSE [kind |-> "shift", i |-> i + Shift(search, line, i, j),
                     escidx |-> e1]

\* What Search returns: (idx, eidx, escidx, err).
NoMatchResult == [err |-> TRUE, idx |-> 0, eidx |-> 0, escidx |-> 0]

RECURSIVE SearchLoop(_, _, _, _, _)
SearchLoop(search, line, i, escidx, escapes) ==
  IF ~InLoop(search, line, i)
  THEN NoMatchResult
  ELSE LET r == SearchStep(search, line, i, escidx, escapes)
       IN  IF r.kind = "match"
           THEN [err |-> FALSE, idx |-> r.i, eidx |-> MatchEnd(search, r.i),
                 escidx |-> r.escidx]
           ELSE SearchLoop(search, line, r.i, r.escidx, escapes)

Search(search, line, start, escapes) ==
  SearchLoop(search, line, start, 0, escapes)

(***************************************************************************)
(* The options the parser is configured with.  The source takes them as    *)
(* ParserOptions; the model fixes the ones the specification gives as its  *)
(* examples: VariableRegex %\w+%, EscapeRegex \\. , UnwrapVariable         *)
(* stripping the two % and Unescape writing the byte after the backslash.  *)
(***************************************************************************)

\* \w of the variable pattern: 0-9, A-Z, _, a-z.
IsWord(c) == c \in (48 .. 57) \cup (65 .. 90) \cup {95} \cup (97 .. 122)

\* The end of the run of word bytes of s that starts at i.
RECURSIVE WordRunEnd(_, _)
WordRunEnd(s, i) ==
  IF i < Len(s) /\ IsWord(At(s, i)) THEN WordRunEnd(s, i + 1) ELSE i

\* The end of the match of %\w+% in s that starts at i, or -1.
VarMatchEnd(s, i) ==
  IF i < Len(s) /\ At(s, i) = 37
  THEN LET e == WordRunEnd(s, i + 1)
       IN  IF e > i + 1 /\ e < Len(s) /\ At(s, e) = 37 THEN e + 1 ELSE -1
  ELSE -1

\* varRE.FindStringIndex(s): the leftmost match as <<start, end>>, or <<>>
\* for nil.
VarFindStringIndex(s) ==
  LET starts == {i \in 0 .. Len(s) - 1 : VarMatchEnd(s, i) # -1}
  IN  IF starts = {} THEN <<>>
      ELSE LET i == CHOOSE i \in starts : \A k \in starts : i <= k
           IN  <<i, VarMatchEnd(s, i)>>

\* varRE.MatchString(s)
VarMatchString(s) == VarFindStringIndex(s) # <<>>

\* options.UnwrapVariable: %name% to name.
UnwrapVariable(token) == Slice(token, 1, Len(token) - 1)

\* escapeRE.FindAllStringIndex(line, -1) for \\. : a backslash and the byte
\* after it (any byte but a newline), leftmost first, without overlap.
RECURSIVE EscFindAllFrom(_, _)
EscFindAllFrom(line, i) ==
  IF i >= Len(line) THEN <<>>
  ELSE IF At(line, i) = 92 /\ i + 1 < Len(line) /\ At(line, i + 1) # 10
  THEN <<<<i, i + 2>>>> \o EscFindAllFrom(line, i + 2)
  ELSE EscFindAllFrom(line, i + 1)

EscFindAllStringIndex(line) == EscFindAllFrom(line, 0)

\* options.Unescape(raw, &buf): what it writes to the buffer for the escape
\* text raw.
UnescapeCallback(raw) == Slice(raw, 1, Len(raw))

(***************************************************************************)
(* splitSegments and NewParser                                             *)
(***************************************************************************)

RECURSIVE splitSegments(_)
splitSegments(fmt) ==
  IF Len(fmt) = 0 THEN <<>>
  ELSE LET loc == VarFindStringIndex(fmt)
       IN  IF loc = <<>> THEN <<fmt>>
           ELSE (IF loc[1] > 0 THEN <<Slice(fmt, 0, loc[1])>> ELSE <<>>)
                \o <<Slice(fmt, loc[1], loc[2])>>
                \o splitSegments(Slice(fmt, loc[2], Len(fmt)))

\* The nil *Parser, and the error NewParser returns with it.
NilParser == [nil |-> TRUE, segments |-> <<>>]

\* if variable != "": two consecutive variables.

\* The variant without the test: the later variable replaces the pending one.
ConsecutiveUnchecked(variable) == FALSE

ConsecutiveVariables(variable) == variable # <<>>

\* The separator's searcher: the cached one, or a new one that is cached.
SearcherFor(searchers, segment) ==
  IF segment \in DOMAIN searchers THEN searchers[segment]
  ELSE compileSearcher(segment)

CacheSearcher(searchers, segment) ==
  [x \in DOMAIN searchers \cup {segment} |->
     IF x \in DOMAIN searchers THEN searchers[x]
     ELSE compileSearcher(segment)]

\* The loop over segments of NewParser from segment k on, with the pending
\* variable, the parser segments built so far and the searcher cache.
RECURSIVE NewParserLoop(_, _, _, _, _)
NewParserLoop(segments, k, variable, psegments, searchers) ==
  IF k > Len(segments)
  THEN [parser |->
          [nil |-> FALSE,
           segments |->
             IF variable # <<>>
             THEN Append(psegments, [variable |-> UnwrapVariable(variable),
                                     searcher |-> NoSearcher])
             ELSE psegments],
        err |-> FALSE]
  ELSE LET segment == segments[k]
       IN  IF VarMatchString(segment)
           THEN IF ConsecutiveVariables(variable)
                THEN [parser |-> NilParser, err |-> TRUE]
                ELSE NewParserLoop(segments, k + 1, segment, psegments,
                                   searchers)
           ELSE NewParserLoop(
                  segments, k + 1, <<>>,
                  Append(psegments,
                         [variable |-> IF variable # <<>>
                                       THEN UnwrapVariable(variable)
                                       ELSE variable,
                          searcher |-> SearcherFor(searchers, segment)]),
                  CacheSearcher(searchers, segment))

\* NewParser(format, options) with the options above: both patterns compile.
NewParser(fmt) ==
  NewParserLoop(splitSegments(fmt), 1, <<>>, <<>>, <<>>)

(***************************************************************************)
(* Parser.unescape, Parser.Parse and Parser.ParseToMap                     *)
(***************************************************************************)

\* A slice expression s[a:b] that does not panic.
SliceOk(s, a, b) == 0 <= a /\ a <= b /\ b <= Len(s)

\* The loop of unescape from the k-th escape on; a slice out of range panics.
RECURSIVE UnescapeLoop(_, _, _, _, _, _)
UnescapeLoop(match, offset, escapes, k, last, buf) ==
  IF k > Len(escapes)
  THEN IF SliceOk(match, last, Len(match))
       THEN [panic |-> FALSE, value |-> buf \o Slice(match, last, Len(match))]
       ELSE [panic |-> TRUE, value |-> <<>>]
  ELSE LET escStart == EscStart(escapes[k]) - offset
           escEnd == EscEnd(escapes[k]) - offset
       IN  IF SliceOk(match, last, escStart) /\ SliceOk(match, escStart, escEnd)
           THEN UnescapeLoop(match, offset, escapes, k + 1, escEnd,
                             buf \o Slice(match, last, escStart)
                                 \o UnescapeCallback(Slice(match, escStart, escEnd)))
           ELSE [panic |-> TRUE, value |-> <<>>]

unescape(match, offset, escapes) ==
  UnescapeLoop(match, offset, escapes, 1, 0, <<>>)

\* parserResultMap.Store: m[key] = value.
Store(m, key, value) ==
  [x \in DOMAIN m \cup {key} |-> IF x = key THEN value ELSE m[x]]

\* No call of unescape has been made.
NoUnescape == [called |-> FALSE, match |-> <<>>, offset |-> 0,
               escapes |-> <<>>]

\* The frame of one call of ParseToMap: the locals of Parse (line, escapes,
\* ptr, and idx, the position of the range loop over parser.segments), the
\* result map with the Store calls made on it in order, the error returned,
\* and the arguments of the latest call of unescape.
IdleCall == [pc |-> "idle", line |-> <<>>, escapes |-> <<>>, ptr |-> 0,
             idx |-> 1, output |-> <<>>, stores |-> <<>>, err |-> FALSE,
             unesc |-> NoUnescape]

\* The entry of ParseToMap and Parse: a fresh map, the escapes of the line,
\* ptr := 0.
BeginCall(line) ==
  [IdleCall EXCEPT !.pc = "running", !.line = line,
                   !.escapes = EscFindAllStringIndex(line)]

\* output.Store(segment.variable, value)
StoreValue(f, variable, value) ==
  [f EXCEPT !.output = Store(@, variable, value),
            !.stores = Append(@, <<variable, value>>)]

\* The frame after value := parser.unescape(match, offset, escapes) and the
\* Store of the value, or after the panic of unescape.
StoreUnescaped(f, variable, match, offset, escapes) ==
  LET u == unescape(match, offset, escapes)
      g == [f EXCEPT !.unesc = [called |-> TRUE, match |-> match,
                                offset |-> offset, escapes |-> escapes]]
  IN  IF u.panic THEN [g EXCEPT !.pc = "panic"]
      ELSE StoreValue(g, variable, u.value)

\* segment.variable == "": look for a delimiter, read into no variable.
PureSeparator(segment, f) ==
  IF segment.searcher.nil THEN [f EXCEPT !.pc = "panic"]
  ELSE LET r == Search(segment.searcher, f.line, f.ptr, f.escapes)
       IN  IF r.err THEN [f EXCEPT !.pc = "done", !.err = TRUE]
           ELSE [f EXCEPT !.ptr = r.eidx,
                          !.escapes = Slice(@, r.escidx, Len(@)),
                          !.idx = @ + 1]

\* segment.searcher == nil: read the rest of the line into the variable.
RestOfLine(segment, f) ==
  LET value == Slice(f.line, f.ptr, Len(f.line))
      g == IF Len(f.escapes) > 0
           THEN StoreUnescaped(f, segment.variable, value, f.ptr, f.escapes)
           ELSE StoreValue(f, segment.variable, value)
  IN  IF g.pc = "panic" THEN g
      ELSE [g EXCEPT !.ptr = Len(f.line), !.idx = @ + 1]

\* escapes[0:escidx], the escapes the search has passed.

\* The variant that passes every remaining escape: escapes.
ConsumedAllRemaining(escapes, escidx) == escapes

ConsumedEscapes(escapes, escidx) == Slice(escapes, 0, escidx)

\* Otherwise: find the separator and store what precedes it.

\* The variant that stores before it tests err.
NamedSeparatorStoreFirst(segment, f) ==
  LET r == Search(segment.searcher, f.line, f.ptr, f.escapes)
      value == IF r.err THEN <<>> ELSE Slice(f.line, f.ptr, r.idx)
      g == IF r.escidx > 0
           THEN [StoreUnescaped(f, segment.variable, value, f.ptr,
                                ConsumedEscapes(f.escapes, r.escidx))
                   EXCEPT !.escapes = Slice(@, r.escidx, Len(@))]
           ELSE StoreValue(f, segment.variable, value)
  IN  IF r.err THEN [g EXCEPT !.pc = "done", !.err = TRUE]
      ELSE IF g.pc = "panic" THEN g
      ELSE [g EXCEPT !.ptr = r.eidx, !.idx = @ + 1]

NamedSeparator(segment, f) ==
  LET r == Search(segment.searcher, f.line, f.ptr, f.escapes)
      value == Slice(f.line, f.ptr, r.idx)
      g == IF r.escidx > 0
           THEN [StoreUnescaped(f, segment.variable, value, f.ptr,
                                ConsumedEscapes(f.escapes, r.escidx))
                   EXCEPT !.escapes = Slice(@, r.escidx, Len(@))]
           ELSE StoreValue(f, segment.variable, value)
  IN  IF r.err THEN [f EXCEPT !.pc = "done", !.err = TRUE]
      ELSE IF g.pc = "panic" THEN g
      ELSE [g EXCEPT !.ptr = r.eidx, !.idx = @ + 1]

\* One iteration of the loop over parser.segments.
SegmentStep(segment, f) ==
  IF segment.variable = <<>> THEN PureSeparator(segment, f)
  ELSE IF segment.searcher.nil THEN RestOfLine(segment, f)
  ELSE NamedSeparator(segment, f)

\* The compiled parser and the frame after one iteration: Parse reads the
\* parser and writes none of its fields.

\* The variant that iterates by popping the head of parser.segments.
ParseStepPopping(p, f) ==
  [p |-> [p EXCEPT !.segments = Tail(@)],
   f |-> SegmentStep(Head(p.segments), f)]

ParseStep(p, f) ==
  [p |-> p, f |-> SegmentStep(p.segments[f.idx], f)]

\* Parse run to its end on its own, from frame f.
RECURSIVE RunAlone(_, _)
RunAlone(p, f) ==
  IF f.pc # "running" THEN f
  ELSE IF f.idx > Len(p.segments) THEN [f EXCEPT !.pc = "done"]
  ELSE RunAlone(p, SegmentStep(p.segments[f.idx], f))

(***************************************************************************)
(* The searcher on its own: one pattern is compiled and searched for in    *)
(* one line, one loop iteration per step.  srch is the frame of the call.  *)
(***************************************************************************)

\* Bytes of the patterns and lines searched: 'a' and 'b'.
SearchAlphabet == {97, 98}

\* Ascending lists of at most MaxEscapes disjoint non-empty ranges in a line
\* of length n, as FindAllStringIndex returns them for a non-empty match.
EscapeRanges(n) == {<<s, e>> : s \in 0 .. n, e \in 0 .. n} \cap
                   {r \in (0 .. n) \X (0 .. n) : r[1] < r[2]}

EscapeLists(n) ==
  {es \in SeqsUpTo(EscapeRanges(n), MaxEscapes) :
     \A k \in 1 .. Len(es) - 1 : EscEnd(es[k]) <= EscStart(es[k + 1])}

\* No call of Search is in progress.  The frame holds the arguments, the
\* locals i and escidx, the number of loop iterations run so far (iters)
\* and the values returned.
NoSearch == [pc |-> "none", pattern |-> <<>>, line |-> <<>>, start |-> 0,
             escapes |-> <<>>, i |-> 0, escidx |-> 0, iters |-> 0,
             result |-> NoMatchResult]

\* The callers of Parse that share one parser.
Callers == {1, 2}

SearchInit ==
  /\ format = <<>>
  /\ parser = [pc |-> "none", p |-> NilParser, err |-> FALSE]
  /\ call = [c \in Callers |-> IdleCall]
  /\ searcher = NoSearcher
  /\ \E l \in SeqsUpTo(SearchAlphabet, MaxSearchLen) :
       \E es \in EscapeLists(Len(l)) :
         \E s \in 0 .. Len(l), p \in SeqsUpTo(SearchAlphabet, MaxPatLen) :
           srch = [NoSearch EXCEPT !.pc = "compile", !.pattern = p,
                                   !.line = l, !.start = s, !.escapes = es]

\* compileSearcher(pattern), then the entry of Search: escidx := 0, i := start.
CompileSearcher ==
  /\ srch.pc = "compile"
  /\ searcher' = compileSearcher(srch.pattern)
  /\ srch' = [srch EXCEPT !.pc = IF searcher'.panic THEN "panic" ELSE "loop",
                          !.i = srch.start, !.escidx = 0]
  /\ UNCHANGED <<format, parser, call>>

SearchIterating ==
  /\ srch.pc = "loop"
  /\ InLoop(searcher, srch.line, srch.i)

ThisStep == SearchStep(searcher, srch.line, srch.i, srch.escidx, srch.escapes)

\* An iteration that finds the window inside an escape: i = escapes[escidx][1]; continue.
SearchSkipEscape ==
  /\ SearchIterating
  /\ ThisStep.kind = "skip"
  /\ srch' = [srch EXCEPT !.i = ThisStep.i, !.escidx = ThisStep.escidx,
                          !.iters = @ + 1]
  /\ UNCHANGED <<format, parser, call, searcher>>

\* An iteration that ends in a mismatch: i += max(bc, gs).
SearchShift ==
  /\ SearchIterating
  /\ ThisStep.kind = "shift"
  /\ srch' = [srch EXCEPT !.i = ThisStep.i, !.escidx = ThisStep.escidx,
                          !.iters = @ + 1]
  /\ UNCHANGED <<format, parser, call, searcher>>

\* An iteration that matches: return i, i+len(pattern), escidx, nil.
SearchMatched ==
  /\ SearchIterating
  /\ ThisStep.kind = "match"
  /\ srch' = [srch EXCEPT !.pc = "done", !.escidx = ThisStep.escidx,
                          !.iters = @ + 1,
                          !.result = [err |-> FALSE, idx |-> ThisStep.i,
                                      eidx |-> MatchEnd(searcher, ThisStep.i),
                                      escidx |-> ThisStep.escidx]]
  /\ UNCHANGED <<format, parser, call, searcher>>

\* The loop condition fails: return 0, 0, 0, NO_MATCH.
SearchNoMatch ==
  /\ srch.pc = "loop"
  /\ ~InLoop(searcher, srch.line, srch.i)
  /\ srch' = [srch EXCEPT !.pc = "done", !.result = NoMatchResult]
  /\ UNCHANGED <<format, parser, call, searcher>>

SearchNext ==
  \/ CompileSearcher
  \/ SearchSkipEscape
  \/ SearchShift
  \/ SearchMatched
  \/ SearchNoMatch

SearchSpec == SearchInit /\ [][SearchNext]_vars

(***************************************************************************)
(* The parser: a format is compiled by NewParser, then lines are parsed by *)
(* ParseToMap, one iteration of the segment loop per step.                 *)
(***************************************************************************)

\* The pieces formats are built from: the variables %a% and %b% and the
\* literal byte ',', of which separators of one or more bytes are made.
FormatTokens == {<<37, 97, 37>>, <<37, 98, 37>>, <<44>>}

RECURSIVE Concat(_)
Concat(ss) == IF ss = <<>> THEN <<>> ELSE Head(ss) \o Concat(Tail(ss))

FormatsUpTo(n) == {Concat(ts) : ts \in SeqsUpTo(FormatTokens, n)}

\* Bytes of the lines parsed: 'a', ',' and the backslash.
LineAlphabet == {97, 44, 92}

LinesUpTo(n) == SeqsUpTo(LineAlphabet, n)

ParserInit(formats) ==
  /\ format \in formats
  /\ parser = [pc |-> "new", p |-> NilParser, err |-> FALSE]
  /\ call = [c \in Callers |-> IdleCall]
  /\ searcher = NoSearcher
  /\ srch = NoSearch

\* parser, err := NewParser(format, options)
NewParserCall ==
  /\ parser.pc = "new"
  /\ LET r == NewParser(format)
     IN  parser' = [pc |-> IF r.err THEN "error" ELSE "ok",
                    p |-> r.parser, err |-> r.err]
  /\ UNCHANGED <<format, call, searcher, srch>>

\* Caller c enters ParseToMap with a line.
ParseBegin(c, lines) ==
  /\ parser.pc = "ok"
  /\ call[c].pc = "idle"
  /\ \E line \in lines : call' = [call EXCEPT ![c] = BeginCall(line)]
  /\ UNCHANGED <<format, parser, searcher, srch>>

\* Caller c runs one iteration of the loop over parser.segments.
ParseSegment(c) ==
  /\ call[c].pc = "running"
  /\ call[c].idx <= Len(parser.p.segments)
  /\ LET r == ParseStep(parser.p, call[c])
     IN  /\ parser' = [parser EXCEPT !.p = r.p]
         /\ call' = [call EXCEPT ![c] = r.f]
  /\ UNCHANGED <<format, searcher, srch>>

\* The loop of caller c is over: Parse returns nil and ParseToMap the map.
ParseReturn(c) ==
  /\ call[c].pc = "running"
  /\ call[c].idx > Len(parser.p.segments)
  /\ call' = [call EXCEPT ![c].pc = "done"]
  /\ UNCHANGED <<format, parser, searcher, srch>>

\* One caller.
Init == ParserInit(FormatsUpTo(MaxTokens))

Next ==
  \/ NewParserCall
  \/ ParseBegin(1, LinesUpTo(MaxLineLen))
  \/ ParseSegment(1)
  \/ ParseReturn(1)

Spec == Init /\ [][Next]_vars

\* Two callers share the parser; their steps interleave.  The formats and
\* lines are shorter than those of the single caller.
ConcInit == ParserInit(FormatsUpTo(MaxTokens - 2))

ConcNext ==
  \/ NewParserCall
  \/ \E c \in Callers :
       \/ ParseBegin(c, LinesUpTo(MaxLineLen - 3))
       \/ ParseSegment(c)
       \/ ParseReturn(c)

ConcSpec == ConcInit /\ [][ConcNext]_vars

(***************************************************************************)
(* Properties of the searcher.                                             *)
(***************************************************************************)

\* The pattern occurs in the line at position i.
Occurs(pattern, line, i) ==
  /\ i + Len(pattern) <= Len(line)
  /\ \A k \in 0 .. Len(pattern) - 1 : At(pattern, k) = At(line, i + k)

\* The interval [a, b) shares a position with the escape range r.
Overlaps(a, b, r) == EscStart(r) < b /\ a < EscEnd(r)

OverlapsAny(a, b, escapes) ==
  \E k \in 1 .. Len(escapes) : Overlaps(a, b, escapes[k])

\* The positions a left-to-right scan from start may report: an occurrence
\* of the pattern that overlaps no escape range.
ValidMatches(pattern, line, start, escapes) ==
  {i \in start .. Len(line) :
     /\ Occurs(pattern, line, i)
     /\ ~OverlapsAny(i, i + Len(pattern), escapes)}

Leftmost(S) == CHOOSE i \in S : \A k \in S : i <= k

SearchReturned == srch.pc = "done"

\* C1: whenever Search returns a match (matchStart, matchEnd), the interval
\* [matchStart, matchEnd) overlaps none of the escape ranges it was given.
MatchAvoidsEscapes ==
  (SearchReturned /\ ~srch.result.err) =>
    ~OverlapsAny(srch.result.idx, srch.result.eidx, srch.escapes)

\* C1 witness: Search returned a match although an occurrence of the pattern
\* at or after start lies over an escape range.
MatchAvoidsEscapesWitness ==
  /\ SearchReturned
  /\ ~srch.result.err
  /\ \E i \in srch.start .. Len(srch.line) :
       /\ Occurs(srch.pattern, srch.line, i)
       /\ OverlapsAny(i, i + Len(srch.pattern), srch.escapes)
       /\ i < srch.result.idx

\* C2: for every pattern and line, the empty pattern included, with no
\* escape ranges compileSearcher followed by Search returns the leftmost
\* position a naive scan from start finds, and NoMatch exactly when the
\* naive scan finds nothing.
SearchEqualsNaiveScan ==
  (srch.pc # "compile" /\ srch.escapes = <<>>) =>
    /\ srch.pc # "panic"
    /\ SearchReturned =>
         LET found == ValidMatches(srch.pattern, srch.line, srch.start, <<>>)
         IN  IF found = {} THEN srch.result.err
             ELSE /\ ~srch.result.err
                  /\ srch.result.idx = Leftmost(found)

\* C8: for a non-empty pattern Search returns the leftmost position at or
\* after start where the pattern occurs overlapping no escape range, and
\* NoMatch only when there is no such position.
SearchFindsLeftmostValid ==
  (SearchReturned /\ Len(srch.pattern) > 0) =>
    LET found == ValidMatches(srch.pattern, srch.line, srch.start,
                              srch.escapes)
    IN  IF found = {} THEN srch.result.err
        ELSE /\ ~srch.result.err
             /\ srch.result.idx = Leftmost(found)
             /\ srch.result.eidx = srch.result.idx + Len(srch.pattern)

\* C8 witness: a match found after a jump over an escape range and a
\* shift, to the right of the start offset.
SearchFindsLeftmostValidWitness ==
  /\ SearchReturned
  /\ ~srch.result.err
  /\ Len(srch.pattern) >= 2
  /\ Len(srch.escapes) > 0
  /\ srch.iters >= 3
  /\ srch.result.idx > srch.start
  /\ srch.result.escidx > 0

\* The bad character shift of the iteration in progress, when it ends in a
\* mismatch.
MismatchIndex ==
  MatchDown(srch.pattern, srch.line, srch.i, Len(srch.pattern) - 1)

\* C10: Search terminates: every loop iteration that continues moves the
\* candidate position i strictly forward (a shift by at least 1, a jump to
\* an escape's end past i), every good suffix entry is at least 1, and the
\* loop runs at most len(line) - start + 1 iterations before it returns.
SearchTerminates ==
  /\ [][(SearchIterating /\ srch'.pc = "loop") => srch'.i > srch.i]_vars
  /\ [](srch.pc = "loop" =>
          \A j \in 0 .. Len(srch.pattern) - 1 : searcher.goodSuffixes[j] >= 1)
  /\ [](srch.iters <= Len(srch.line) - srch.start + 1)

\* C10 witness: an iteration ends in a mismatch whose bad character shift
\* is zero or negative.
SearchTerminatesWitness ==
  /\ SearchIterating
  /\ ThisStep.kind = "shift"
  /\ ShiftBadCharOnly(searcher, srch.line, srch.i, MismatchIndex) <= 0
  /\ Len(srch.escapes) > 0

(***************************************************************************)
(* Properties of the compiler and the parser.                              *)
(***************************************************************************)

\* The matches of the variable pattern in fmt from position i on, leftmost
\* first and without overlap.
RECURSIVE VarMatchesFrom(_, _)
VarMatchesFrom(fmt, i) ==
  IF i >= Len(fmt) THEN <<>>
  ELSE IF VarMatchEnd(fmt, i) # -1
  THEN <<<<i, VarMatchEnd(fmt, i)>>>> \o VarMatchesFrom(fmt, VarMatchEnd(fmt, i))
  ELSE VarMatchesFrom(fmt, i + 1)

\* Two variable placeholders of fmt with no text between them.
HasAdjacentVariables(fmt) ==
  LET ms == VarMatchesFrom(fmt, 0)
  IN  \E k \in 1 .. Len(ms) - 1 : ms[k][2] = ms[k + 1][1]

\* C5: NewParser applied to a format with two adjacent variable
\* placeholders returns an error and the nil parser, never a parser built
\* from the segments compiled before the conflict; no line is parsed.
AdjacentVariablesRejected ==
  (parser.pc # "new" /\ HasAdjacentVariables(format)) =>
    /\ parser.pc = "error"
    /\ parser.err
    /\ parser.p = NilParser
    /\ \A c \in Callers : call[c].pc = "idle"

\* C5 witness: NewParser failed on a format whose first segment, a
\* separator, had been compiled before the two adjacent variables.
AdjacentVariablesRejectedWitness ==
  /\ parser.pc = "error"
  /\ HasAdjacentVariables(format)
  /\ Len(format) > 0
  /\ At(format, 0) = 44

\* The segments of the compiled parser, and the escape ranges of a line.
Segments == parser.p.segments
IsTail(segment) == segment.searcher.nil
LineEscapes(line) == EscFindAllStringIndex(line)

\* The separator of segment k cannot be found in the line from offset ptr.
SeparatorMissing(k, line, ptr) ==
  /\ ~IsTail(Segments[k])
  /\ ValidMatches(Segments[k].searcher.pattern, line, ptr,
                  LineEscapes(line)) = {}

\* The names of the named segments among the first n, in order.
RECURSIVE NamesBefore(_)
NamesBefore(n) ==
  IF n = 0 THEN <<>>
  ELSE IF Segments[n].variable = <<>> THEN NamesBefore(n - 1)
  ELSE Append(NamesBefore(n - 1), Segments[n].variable)

StoredNames(f) == [k \in 1 .. Len(f.stores) |-> f.stores[k][1]]

\* C4: when Parse reaches a segment whose separator cannot be found from
\* the current offset it returns NoMatch at once; then Store has been
\* called exactly once, in order, for every named segment before the
\* failing one, and never for the failing segment or a later one.
NoMatchStopsAfterEarlierStores ==
  /\ [](\A c \in Callers :
          call[c].err =>
            /\ call[c].pc = "done"
            /\ call[c].idx <= Len(Segments)
            /\ SeparatorMissing(call[c].idx, call[c].line, call[c].ptr)
            /\ StoredNames(call[c]) = NamesBefore(call[c].idx - 1))
  /\ [][\A c \in Callers :
          (/\ call[c].pc = "running"
           /\ call[c].idx <= Len(Segments)
           /\ SeparatorMissing(call[c].idx, call[c].line, call[c].ptr)
           /\ call'[c] # call[c])
          => (call'[c].err /\ call'[c].pc = "done"
              /\ call'[c].stores = call[c].stores)]_vars
  /\ [][\A c \in Callers : call[c].err => call'[c] = call[c]]_vars

\* C4 witness: Parse returned NoMatch at a named segment that is not the
\* first, after the Store of an earlier segment's non-empty value.
NoMatchStopsAfterEarlierStoresWitness ==
  /\ call[1].err
  /\ call[1].idx >= 2
  /\ Segments[call[1].idx].variable # <<>>
  /\ Len(call[1].stores) >= 1
  /\ call[1].stores[1][2] # <<>>

\* C9: within one call of Parse the segments are processed in compiled
\* order and ptr never decreases and never exceeds len(line); an Anchor
\* segment that matches leaves ptr strictly greater, a Tail segment leaves
\* ptr = len(line).
PtrAdvances ==
  /\ [](\A c \in Callers : 0 <= call[c].ptr /\ call[c].ptr <= Len(call[c].line))
  /\ [][\A c \in Callers :
          /\ call'[c].ptr >= call[c].ptr
          /\ call'[c].idx \in {call[c].idx, call[c].idx + 1}
          /\ (call[c].pc = "running" /\ call'[c].idx = call[c].idx + 1) =>
               IF IsTail(Segments[call[c].idx])
               THEN call'[c].ptr = Len(call[c].line)
               ELSE call'[c].ptr > call[c].ptr]_vars

\* C9 witness: a call has returned after an Anchor segment and a Tail
\* segment on a line, the Anchor's separator matching at the offset the
\* search started from.
PtrAdvancesWitness ==
  /\ call[1].pc = "done"
  /\ ~call[1].err
  /\ Len(Segments) >= 2
  /\ IsTail(Segments[Len(Segments)])
  /\ Segments[1].variable # <<>>
  /\ Len(call[1].stores) >= 2
  /\ call[1].stores[1][2] = <<>>
  /\ call[1].ptr = Len(call[1].line)

\* C7: whenever Parse unescapes a value, the ranges handed to unescape are
\* exactly the escape ranges of the line that lie inside the value's span,
\* in ascending order: every offset relative to the value is within
\* 0 <= escStart <= escEnd <= len(value), no slice is out of bounds, and no
\* range before ptr or past the value's end is passed.
UnescapeGetsRangesOfValue ==
  \A c \in Callers :
    LET u == call[c].unesc
        line == call[c].line
        end == u.offset + Len(u.match)
    IN  u.called =>
          /\ u.match = Slice(line, u.offset, end)
          /\ u.escapes = SelectSeq(LineEscapes(line),
                                   LAMBDA r : u.offset <= EscStart(r) /\ EscEnd(r) <= end)
          /\ \A k \in 1 .. Len(u.escapes) :
               /\ 0 <= EscStart(u.escapes[k]) - u.offset
               /\ EscStart(u.escapes[k]) - u.offset <= EscEnd(u.escapes[k]) - u.offset
               /\ EscEnd(u.escapes[k]) - u.offset <= Len(u.match)
          /\ \A k \in 1 .. Len(u.escapes) - 1 :
               EscEnd(u.escapes[k]) <= EscStart(u.escapes[k + 1])
          /\ call[c].pc # "panic"

\* C7 witness: an Anchor value was unescaped with the range it holds while
\* the line has a later escape range, past the value's end.
UnescapeGetsRangesOfValueWitness ==
  LET u == call[1].unesc
  IN  /\ u.called
      /\ Len(u.escapes) >= 1
      /\ call[1].pc = "running"
      /\ \E k \in 1 .. Len(LineEscapes(call[1].line)) :
           EscStart(LineEscapes(call[1].line)[k]) >= u.offset + Len(u.match)

\* C6: Parse never modifies the compiled parser, and under every
\* interleaving of the calls that share it each call makes the Store calls
\* and returns the result it makes and returns when run alone.
ConcurrentParseIsolated ==
  /\ [][parser.pc = "ok" => parser' = parser]_vars
  /\ [](\A c \in Callers :
          call[c].pc \in {"done", "panic"} =>
            call[c] = RunAlone(NewParser(format).parser, BeginCall(call[c].line)))

\* C6 witness: both callers are inside the segment loop, each past its
\* first segment, on different lines, and one has stored a value.
ConcurrentParseIsolatedWitness ==
  /\ call[1].pc = "running"
  /\ call[2].pc = "running"
  /\ call[1].idx >= 2
  /\ call[2].idx >= 2
  /\ call[1].line # call[2].line
  /\ Len(call[1].stores) >= 1

\* The variable and the literal pieces of a format, as NewParser reads them.
IsVariable(token) == VarMatchString(token)
TemplateVars(fmt) ==
  {UnwrapVariable(splitSegments(fmt)[k]) :
     k \in {k \in 1 .. Len(splitSegments(fmt)) : IsVariable(splitSegments(fmt)[k])}}

\* The format with every placeholder replaced by its variable's value,
\* piece by piece.
Substituted(fmt, vals) ==
  LET segs == splitSegments(fmt)
  IN  [k \in 1 .. Len(segs) |->
         IF IsVariable(segs[k]) THEN vals[UnwrapVariable(segs[k])] ELSE segs[k]]

\* The offset in the substituted line at which piece k starts.
PieceStart(pieces, k) == Len(Concat(SubSeq(pieces, 1, k - 1)))

\* The separator literals of the format are pairwise different.
UniqueSeparators(fmt) ==
  LET segs == splitSegments(fmt)
  IN  \A j, k \in 1 .. Len(segs) :
        (j # k /\ ~IsVariable(segs[j]) /\ ~IsVariable(segs[k])) => segs[j] # segs[k]

\* No value contains a separator literal of the format.
NoSeparatorInValues(fmt, vals) ==
  LET segs == splitSegments(fmt)
  IN  \A k \in 1 .. Len(segs), v \in DOMAIN vals :
        ~IsVariable(segs[k]) =>
          \A i \in 0 .. Len(vals[v]) : ~Occurs(segs[k], vals[v], i)

\* The end of the separator before piece k in the substituted line, or 0.
PreviousSeparatorEnd(fmt, pieces, k) ==
  LET segs == splitSegments(fmt)
      before == {j \in 1 .. k - 1 : ~IsVariable(segs[j])}
  IN  IF before = {} THEN 0
      ELSE LET j == CHOOSE j \in before : \A m \in before : m <= j
           IN  PieceStart(pieces, j) + Len(segs[j])

\* Concatenation creates no occurrence of a separator before its own place:
\* between the end of the previous separator and the separator's own start
\* the line holds no occurrence of it.
NoEarlierOccurrence(fmt, vals) ==
  LET segs == splitSegments(fmt)
      pieces == Substituted(fmt, vals)
      line == Concat(pieces)
  IN  \A k \in 1 .. Len(segs) :
        ~IsVariable(segs[k]) =>
          \A i \in PreviousSeparatorEnd(fmt, pieces, k) .. PieceStart(pieces, k) - 1 :
            ~Occurs(segs[k], line, i)

\* The substrings of a line: the values a substitution giving it can use.
Substrings(line) ==
  {Slice(line, ab[1], ab[2]) :
     ab \in {x \in (0 .. Len(line)) \X (0 .. Len(line)) : x[1] <= x[2]}}

\* The value assignments that meet the round trip's conditions and
\* substitute to the line.
RoundTripInputs(fmt, line) ==
  IF ~UniqueSeparators(fmt) THEN {}
  ELSE {vals \in [TemplateVars(fmt) -> Substrings(line)] :
          /\ Concat(Substituted(fmt, vals)) = line
          /\ NoSeparatorInValues(fmt, vals)
          /\ NoEarlierOccurrence(fmt, vals)}

\* ParseToMap returned the map holding exactly vals.
ReturnedMap(f, vals) ==
  /\ f.pc = "done"
  /\ ~f.err
  /\ f.output = vals

CallOver(f) == f.pc \in {"done", "panic"}

\* C3, as stated: for a format with unique separator literals and values
\* that neither contain a separator literal nor create an earlier
\* occurrence of one, ParseToMap of the substituted line succeeds and
\* returns exactly the original value under each variable name.
RoundTrip ==
  \A c \in Callers :
    CallOver(call[c]) =>
      \A vals \in RoundTripInputs(format, call[c].line) :
        ReturnedMap(call[c], vals)

\* C3, amended: the same, for substituted lines in which the escape pattern
\* matches nowhere.
RoundTripWithoutEscapes ==
  \A c \in Callers :
    (CallOver(call[c]) /\ LineEscapes(call[c].line) = <<>>) =>
      \A vals \in RoundTripInputs(format, call[c].line) :
        ReturnedMap(call[c], vals)

\* C3 witness: a call is over on the line substituted from a format with
\* two variables and two different non-empty values.
RoundTripWithoutEscapesWitness ==
  /\ CallOver(call[1])
  /\ LineEscapes(call[1].line) = <<>>
  /\ \E vals \in RoundTripInputs(format, call[1].line) :
       /\ DOMAIN vals = {<<97>>, <<98>>}
       /\ vals[<<97>>] # <<>>
       /\ vals[<<98>>] # <<>>
       /\ vals[<<97>>] # vals[<<98>>]

====
